---- MODULE Spec2Model ----
(***************************************************************************)
(* Model of two scripts of the repository.                                 *)
(*                                                                         *)
(*  thread-test/s3_threaded_delete.py : handler() lists the objects of a   *)
(*  bucket with ONE list_objects_v2 call, starts a pool of daemon          *)
(*  DeleteWorker threads bound to one queue.Queue, puts every listed key   *)
(*  on the queue and waits in queue.join().  DeleteWorker.run() loops      *)
(*  forever: get, delete_object inside try, task_done inside finally.      *)
(*                                                                         *)
(*  boto3-security-group-audit/sg-audit.py : find_orphans() takes the      *)
(*  security groups of a VPC and pops every group some scanned resource    *)
(*  references; remove_orphans() and main() use it.                        *)
(*                                                                         *)
(* Specifications: Spec (the delete pipeline), FairSpec (the pipeline      *)
(* under weak fairness of the handler and of every worker thread),         *)
(* SpecSG (the security-group audit).                                      *)
(***************************************************************************)
EXTENDS Integers, Sequences, FiniteSets

(* ------------------------------ bounds --------------------------------- *)
\* Number of DeleteWorker threads the handler starts.  The source starts
\* range(8) of them (s3_threaded_delete.py line 31); the pool is scaled down
\* here so that every interleaving of the threads can be enumerated.
PoolSize == 3
\* Largest number of objects matching the prefix in the bucket.
MaxItems == 4
\* Largest number of keys the listing service returns in one page.
MaxPageSize == 4
\* Security-group audit: number of distinct group ids, and pages per listing.
MaxSG == 2
MaxPages == 2

VARIABLES
  \* ---- inputs of the delete pipeline (fixed by Init) ----
  pages,       \* the listing service's answer, split in pages of keys
  listFails,   \* TRUE when client.list_objects_v2 raises
  failKeys,    \* the keys for which client.delete_object raises
  omitEmpty,   \* TRUE when the service leaves 'Contents' out of an empty answer
  \* ---- handler() ----
  pc,          \* position of handler: list, start, iter, put, join, done, raised
  response,    \* the value list_objects_v2 returned (line 29)
  started,     \* number of workers started so far (loop of line 31)
  idx,         \* index in response['Contents'] of the next key to put
  error,       \* the exception that left handler, "" when none
  ret,         \* the value handler returned
  \* ---- queue.Queue ----
  queue,       \* [items: Seq(key), unfinished_tasks: Nat]
  \* ---- DeleteWorker threads ----
  wstate,      \* per worker: NotStarted, Idle (in get), Processing, Finally, Stopped
  wtask,       \* per worker: the key it holds, 0 when none
  wexc,        \* per worker: TRUE when delete_object raised and the exception is pending
  \* ---- history of each key (observation only, never read by the program) ----
  puts,        \* per key: times it was put on the queue
  claimedBy,   \* per key: the workers that received it from get, in order
  deletedBy,   \* per key: the workers that called delete_object for it, in order
  deleted,     \* per key: "none", "ok" or "fail", the outcome of its delete call
  acks,        \* per key: times task_done was called for it
  \* ---- security-group audit ----
  sgpc,        \* position of main(): start, done
  vpcGroups,   \* the security groups that exist in the VPC
  vpcBefore,   \* the security groups that existed when main() started (history)
  uses,        \* per group id: <<service, page>> of the resource referencing it, or <<>>
  argVpc,      \* --vpc-id was given
  argDelete,   \* --delete was given
  printed,     \* what main() printed: [text, groups]
  orphansRet   \* the value the last find_orphans/remove_orphans call returned

pipeVars == <<pages, listFails, failKeys, omitEmpty, pc, response, started, idx, error, ret,
              queue, wstate, wtask, wexc, puts, claimedBy, deletedBy, deleted, acks>>
sgVars == <<sgpc, vpcGroups, vpcBefore, uses, argVpc, argDelete, printed, orphansRet>>
vars == <<pipeVars, sgVars>>

Workers == 1..PoolSize
Keys == 1..MaxItems
SGIds == 1..MaxSG

Min(a, b) == IF a < b THEN a ELSE b

(* ------------------------- listing service ----------------------------- *)
\* n keys 1..n split in pages of ps keys, the last one shorter; at least one
\* page is always returned (an empty one when nothing matches).
NumPages(n, ps) == IF n = 0 THEN 1 ELSE (n + ps - 1) \div ps
Paginate(n, ps) ==
  [p \in 1..NumPages(n, ps) |->
     [i \in 1..Min(ps, n - (p - 1) * ps) |-> (p - 1) * ps + i]]

SeqRange(s) == {s[i] : i \in 1..Len(s)}
AllListed == UNION {SeqRange(pages[p]) : p \in 1..Len(pages)}

\* The response of one list_objects_v2 call without ContinuationToken: the
\* first page only.  omit: the service leaves 'Contents' out of an empty page.
ListResponse(pgs, omit) ==
  [Contents |-> pgs[1],
   HasContents |-> ~(omit /\ Len(pgs[1]) = 0),
   IsTruncated |-> Len(pgs) > 1]

NoResponse == [Contents |-> <<>>, HasContents |-> FALSE, IsTruncated |-> FALSE]

(* ----------------------------- queue.Queue ----------------------------- *)
EmptyQueue == [items |-> <<>>, unfinished_tasks |-> 0]
QueuePut(q, x) ==
  [items |-> Append(q.items, x), unfinished_tasks |-> q.unfinished_tasks + 1]
\* get() removes the head; it blocks while the queue is empty.
Dequeue_Peek(q) == q
Dequeue(q) == [q EXCEPT !.items = Tail(@)]
\* join() returns once unfinished_tasks is zero.
JoinReady_QueueEmpty(q) == Len(q.items) = 0
JoinReady(q) == q.unfinished_tasks = 0

(* ------------------------------ handler -------------------------------- *)
\* Line 29: the single listing call.  It raises before the queue and the
\* workers exist, and the exception leaves handler.
ListObjects_Swallowed ==
  /\ pc = "list"
  /\ IF listFails
       THEN /\ pc' = "start"
            /\ response' = [NoResponse EXCEPT !.HasContents = TRUE]
            /\ error' = ""
       ELSE /\ pc' = "start"
            /\ response' = ListResponse(pages, omitEmpty)
            /\ error' = ""
  /\ UNCHANGED sgVars
  /\ UNCHANGED <<pages, listFails, failKeys, omitEmpty, started, idx, ret, queue,
                 wstate, wtask, wexc, puts, claimedBy, deletedBy, deleted, acks>>
ListObjects ==
  /\ pc = "list"
  /\ IF listFails
       THEN /\ pc' = "raised"
            /\ error' = "ListError"
            /\ response' = response
       ELSE /\ pc' = "start"
            /\ response' = ListResponse(pages, omitEmpty)
            /\ error' = error
  /\ UNCHANGED sgVars
  /\ UNCHANGED <<pages, listFails, failKeys, omitEmpty, started, idx, ret, queue,
                 wstate, wtask, wexc, puts, claimedBy, deletedBy, deleted, acks>>

\* Lines 31-34: one iteration creates a daemon worker and starts it; the
\* started thread enters run() and waits in get().
StartWorker ==
  /\ pc = "start"
  /\ started < PoolSize
  /\ started' = started + 1
  /\ wstate' = [wstate EXCEPT ![started + 1] = "Idle"]
  /\ UNCHANGED sgVars
  /\ UNCHANGED <<pages, listFails, failKeys, omitEmpty, pc, response, idx, error,
                 ret, queue, wtask, wexc, puts, claimedBy, deletedBy, deleted, acks>>

\* Line 35: the for statement evaluates response['Contents'] once; a response
\* without that key raises KeyError out of handler.
IterContents ==
  /\ pc = "start"
  /\ started = PoolSize
  /\ IF response.HasContents
       THEN pc' = "put" /\ error' = error
       ELSE pc' = "raised" /\ error' = "KeyError"
  /\ UNCHANGED sgVars
  /\ UNCHANGED <<pages, listFails, failKeys, omitEmpty, response, started, idx, ret,
                 queue, wstate, wtask, wexc, puts, claimedBy, deletedBy, deleted, acks>>

\* Lines 35-37: one iteration puts (Bucket, Key) of the next listed object.
Put ==
  /\ pc = "put"
  /\ idx <= Len(response.Contents)
  /\ LET k == response.Contents[idx] IN
       /\ queue' = QueuePut(queue, k)
       /\ puts' = [puts EXCEPT ![k] = @ + 1]
  /\ idx' = idx + 1
  /\ UNCHANGED sgVars
  /\ UNCHANGED <<pages, listFails, failKeys, omitEmpty, pc, response, started, error,
                 ret, wstate, wtask, wexc, claimedBy, deletedBy, deleted, acks>>

\* The for loop is exhausted: handler goes on to queue.join() (line 38).
EndPut ==
  /\ pc = "put"
  /\ idx > Len(response.Contents)
  /\ pc' = "join"
  /\ UNCHANGED sgVars
  /\ UNCHANGED <<pages, listFails, failKeys, omitEmpty, response, started, idx, error,
                 ret, queue, wstate, wtask, wexc, puts, claimedBy, deletedBy, deleted,
                 acks>>

\* Lines 38-39: join() returns, handler logs and returns None.  Nothing is
\* sent to the workers: they are daemon threads and stay where they are.
Join ==
  /\ pc = "join"
  /\ JoinReady(queue)
  /\ pc' = "done"
  /\ ret' = "None"
  /\ UNCHANGED sgVars
  /\ UNCHANGED <<pages, listFails, failKeys, omitEmpty, response, started, idx, error,
                 queue, wstate, wtask, wexc, puts, claimedBy, deletedBy, deleted, acks>>

(* --------------------------- DeleteWorker.run -------------------------- *)
\* Line 20: get() hands the head of the queue to one waiting worker.
Get(w) ==
  /\ wstate[w] = "Idle"
  /\ Len(queue.items) > 0
  /\ LET k == Head(queue.items) IN
       /\ wtask' = [wtask EXCEPT ![w] = k]
       /\ claimedBy' = [claimedBy EXCEPT ![k] = Append(@, w)]
  /\ queue' = Dequeue(queue)
  /\ wstate' = [wstate EXCEPT ![w] = "Processing"]
  /\ UNCHANGED sgVars
  /\ UNCHANGED <<pages, listFails, failKeys, omitEmpty, pc, response, started, idx,
                 error, ret, wexc, puts, deletedBy, deleted, acks>>

\* Lines 21-23: the delete call returns or raises; either way control goes
\* to the finally clause, with the exception pending when it raised.
DeleteObject(w) ==
  /\ wstate[w] = "Processing"
  /\ LET k == wtask[w] IN
       /\ deletedBy' = [deletedBy EXCEPT ![k] = Append(@, w)]
       /\ deleted' = [deleted EXCEPT ![k] = IF k \in failKeys THEN "fail" ELSE "ok"]
       /\ wexc' = [wexc EXCEPT ![w] = k \in failKeys]
  /\ wstate' = [wstate EXCEPT ![w] = "Finally"]
  /\ UNCHANGED sgVars
  /\ UNCHANGED <<pages, listFails, failKeys, omitEmpty, pc, response, started, idx,
                 error, ret, queue, wtask, puts, claimedBy, acks>>

\* Lines 24-25 and the loop of line 18: task_done() (ValueError when nothing
\* is unfinished); then the pending exception, if any, leaves run() and the
\* thread ends, otherwise the loop goes back to get().
TaskDone_Twice(w) ==
  /\ wstate[w] = "Finally"
  /\ LET k == wtask[w]
         u == queue.unfinished_tasks
         n == IF u <= 0 THEN 0 ELSE IF u = 1 THEN 1 ELSE 2 IN
       /\ queue' = [queue EXCEPT !.unfinished_tasks = u - n]
       /\ acks' = [acks EXCEPT ![k] = @ + n]
       /\ wstate' = [wstate EXCEPT ![w] = IF wexc[w] \/ n < 2 THEN "Stopped" ELSE "Idle"]
  /\ wtask' = [wtask EXCEPT ![w] = 0]
  /\ wexc' = [wexc EXCEPT ![w] = FALSE]
  /\ UNCHANGED sgVars
  /\ UNCHANGED <<pages, listFails, failKeys, omitEmpty, pc, response, started, idx,
                 error, ret, puts, claimedBy, deletedBy, deleted>>
TaskDone(w) ==
  /\ wstate[w] = "Finally"
  /\ LET k == wtask[w] IN
       IF queue.unfinished_tasks <= 0
         THEN /\ queue' = queue
              /\ acks' = acks
              /\ wstate' = [wstate EXCEPT ![w] = "Stopped"]
         ELSE /\ queue' = [queue EXCEPT !.unfinished_tasks = @ - 1]
              /\ acks' = [acks EXCEPT ![k] = @ + 1]
              /\ wstate' = [wstate EXCEPT ![w] = IF wexc[w] THEN "Stopped" ELSE "Idle"]
  /\ wtask' = [wtask EXCEPT ![w] = 0]
  /\ wexc' = [wexc EXCEPT ![w] = FALSE]
  /\ UNCHANGED sgVars
  /\ UNCHANGED <<pages, listFails, failKeys, omitEmpty, pc, response, started, idx,
                 error, ret, puts, claimedBy, deletedBy, deleted>>

HandlerStep == ListObjects \/ StartWorker \/ IterContents \/ Put \/ EndPut \/ Join
WorkerStep(w) == Get(w) \/ DeleteObject(w) \/ TaskDone(w)

(* ------------------------- pipeline specification ---------------------- *)
PipeIdle ==
  /\ pc = "list"
  /\ response = NoResponse
  /\ started = 0
  /\ idx = 1
  /\ error = ""
  /\ ret = ""
  /\ queue = EmptyQueue
  /\ wstate = [w \in Workers |-> "NotStarted"]
  /\ wtask = [w \in Workers |-> 0]
  /\ wexc = [w \in Workers |-> FALSE]
  /\ puts = [k \in Keys |-> 0]
  /\ claimedBy = [k \in Keys |-> <<>>]
  /\ deletedBy = [k \in Keys |-> <<>>]
  /\ deleted = [k \in Keys |-> "none"]
  /\ acks = [k \in Keys |-> 0]

SGIdle ==
  /\ sgpc = "start"
  /\ vpcGroups = {}
  /\ vpcBefore = {}
  /\ uses = [g \in SGIds |-> <<>>]
  /\ argVpc = TRUE
  /\ argDelete = FALSE
  /\ printed = [text |-> "", groups |-> {}]
  /\ orphansRet = {}

Init ==
  /\ \E n \in 0..MaxItems, ps \in 1..MaxPageSize :
       /\ pages = Paginate(n, ps)
       /\ failKeys \in SUBSET (1..n)
       /\ omitEmpty \in (IF n = 0 THEN BOOLEAN ELSE {TRUE})
  /\ listFails \in BOOLEAN
  /\ PipeIdle
  /\ SGIdle

Next ==
  \/ ListObjects
  \/ StartWorker
  \/ IterContents
  \/ Put
  \/ EndPut
  \/ Join
  \/ \E w \in Workers : Get(w)
  \/ \E w \in Workers : DeleteObject(w)
  \/ \E w \in Workers : TaskDone(w)

Spec == Init /\ [][Next]_vars

\* The handler runs in the main thread and every started worker is a thread
\* of its own: the interpreter schedules each thread that can take a step.
FairSpec ==
  /\ Spec
  /\ WF_vars(HandlerStep)
  /\ \A w \in Workers : WF_vars(WorkerStep(w))

(* ------------------------ security-group audit ------------------------- *)
\* The resource types find_orphans scans, in the order of its loops.
ServiceOrder ==
  <<"EC2", "ELBv1", "ELBv2", "EFS", "RDS", "ElastiCache", "Lambda", "Redshift">>
Services == {ServiceOrder[i] : i \in 1..Len(ServiceOrder)}
\* What one reference can be: none, or a resource on page p of service s.
UseChoices == {<<>>} \cup {<<s, p>> : s \in Services, p \in 1..MaxPages}
\* The pages of service s: the group ids its resources on each page reference.
Listing(u, s) == [p \in 1..MaxPages |-> {g \in SGIds : u[g] = <<s, p>>}]

\* One "while True" loop: pop the groups of the page, follow the token.
RECURSIVE ScanPages(_, _, _)
ScanPages(sg_list, pgs, p) ==
  IF p > Len(pgs) THEN sg_list
  ELSE ScanPages(sg_list \ pgs[p], pgs, p + 1)

\* The loops of find_orphans one after the other, from service number i on.
RECURSIVE ScanServices(_, _, _)
ScanServices(sg_list, u, i) ==
  IF i > Len(ServiceOrder) THEN sg_list
  ELSE ScanServices(ScanPages(sg_list, Listing(u, ServiceOrder[i]), 1), u, i + 1)

\* find_orphans: the groups of the VPC minus every group found in use.
find_orphans(groups, u) == ScanServices(groups, u, 1)

\* remove_orphans returns what find_orphans returns and calls nothing else:
\* ret is its value, vpc the groups that exist after the call.
remove_orphans(groups, u) == [ret |-> find_orphans(groups, u), vpc |-> groups]

\* main(): "vpc-id required" is caught by the except clause and printed.
MainNoVpc ==
  /\ sgpc = "start"
  /\ ~argVpc
  /\ printed' = [text |-> "Exception: vpc-id required", groups |-> {}]
  /\ sgpc' = "done"
  /\ UNCHANGED <<vpcGroups, vpcBefore, uses, argVpc, argDelete, orphansRet>>
  /\ UNCHANGED pipeVars

\* main() without --delete: print(find_orphans(vpc_id)).
MainDisplay ==
  /\ sgpc = "start"
  /\ argVpc
  /\ ~argDelete
  /\ orphansRet' = find_orphans(vpcGroups, uses)
  /\ printed' = [text |-> "orphans", groups |-> find_orphans(vpcGroups, uses)]
  /\ sgpc' = "done"
  /\ UNCHANGED <<vpcGroups, vpcBefore, uses, argVpc, argDelete>>
  /\ UNCHANGED pipeVars

\* main() with --delete: remove_orphans(vpc_id), result dropped.
MainDelete ==
  /\ sgpc = "start"
  /\ argVpc
  /\ argDelete
  /\ orphansRet' = remove_orphans(vpcGroups, uses).ret
  /\ vpcGroups' = remove_orphans(vpcGroups, uses).vpc
  /\ sgpc' = "done"
  /\ UNCHANGED <<vpcBefore, uses, argVpc, argDelete, printed>>
  /\ UNCHANGED pipeVars

InitSG ==
  /\ sgpc = "start"
  /\ vpcGroups \in SUBSET SGIds
  /\ vpcBefore = vpcGroups
  /\ uses \in [SGIds -> UseChoices]
  /\ argVpc \in BOOLEAN
  /\ argDelete \in BOOLEAN
  /\ printed = [text |-> "", groups |-> {}]
  /\ orphansRet = {}
  /\ pages = Paginate(0, 1)
  /\ listFails = FALSE
  /\ failKeys = {}
  /\ omitEmpty = TRUE
  /\ PipeIdle

NextSG == MainNoVpc \/ MainDisplay \/ MainDelete

SpecSG == InitSG /\ [][NextSG]_vars

(* ------------------------- observed quantities ------------------------- *)
\* A worker is live while its thread runs: waiting in get() or holding a task.
Live(w) == wstate[w] \in {"Idle", "Processing", "Finally"}
LiveWorkers == {w \in Workers : Live(w)}

RECURSIVE SumPuts(_)
SumPuts(S) ==
  IF S = {} THEN 0
  ELSE LET k == CHOOSE x \in S : TRUE IN puts[k] + SumPuts(S \ {k})

Enqueued == {k \in Keys : puts[k] > 0}
Submitted == SumPuts(Keys)
Succeeded == Cardinality({k \in Keys : acks[k] > 0 /\ deleted[k] = "ok"})
Failed == Cardinality({k \in Keys : acks[k] > 0 /\ deleted[k] = "fail"})
FailedKeys == {k \in Keys : deleted[k] = "fail"}
\* The failed keys the value returned by handler reports.  handler has no
\* return statement: the value is None and names no key.
ResultFailures(r) == {}

(* ------------------------------- claims -------------------------------- *)
\* C1: per-item fault isolation: once the pool of W workers is started, the
\* number of live workers (Idle or Processing) is W in every state; a failing
\* delete never terminates the worker that processed it.
C1_WorkersNeverKilled ==
  started = PoolSize => Cardinality(LiveWorkers) = PoolSize

\* C2: completion despite failures: under fair scheduling every enqueued key
\* is eventually acknowledged and queue.join() eventually returns, whatever
\* keys fail to delete.
C2_CompletionDespiteFailures ==
  /\ (pc = "join") ~> (pc = "done")
  /\ \A k \in Keys : (puts[k] > 0) ~> (acks[k] > 0)

\* C3: no premature completion: queue.join() has returned only when every
\* listed key of the response was put and the delete call of every enqueued
\* key has finished and been acknowledged; nothing is queued or in a worker.
C3_NoPrematureCompletion ==
  pc = "done" =>
    /\ idx > Len(response.Contents)
    /\ SeqRange(response.Contents) \subseteq Enqueued
    /\ \A k \in Enqueued : deleted[k] # "none" /\ acks[k] >= 1
    /\ Len(queue.items) = 0
    /\ \A w \in Workers : wtask[w] = 0
C3_Witness ==
  /\ pc = "done"
  /\ Cardinality(Enqueued) >= 2
  /\ \E k \in Enqueued : deleted[k] = "fail"
  /\ \E k \in Enqueued : deleted[k] = "ok"

\* C4: exactly-once claim and acknowledgment: every key is received by at
\* most one worker, deleted by that worker only, acknowledged at most once
\* and only after it was put and its delete finished; once the run is
\* complete every enqueued key was received and acknowledged exactly once.
C4_ExactlyOnce ==
  \A k \in Keys :
    /\ Len(claimedBy[k]) <= 1
    /\ Len(deletedBy[k]) <= Len(claimedBy[k])
    /\ \A i \in 1..Len(deletedBy[k]) : deletedBy[k][i] = claimedBy[k][1]
    /\ acks[k] <= 1
    /\ Len(claimedBy[k]) >= 1 => puts[k] >= 1
    /\ acks[k] >= 1 => puts[k] >= 1 /\ Len(deletedBy[k]) = 1 /\ deleted[k] # "none"
    /\ (pc = "done" /\ puts[k] >= 1) => acks[k] = 1 /\ Len(claimedBy[k]) = 1
C4_Witness ==
  /\ pc = "done"
  /\ \E k1, k2 \in Enqueued :
       /\ k1 # k2
       /\ deleted[k1] = "fail" /\ acks[k1] = 1
       /\ deleted[k2] = "ok" /\ acks[k2] = 1
       /\ claimedBy[k1] # claimedBy[k2]

\* C5: pagination correctness: once enumeration is over, the keys enqueued
\* are the keys of all pages of the listing, each enqueued exactly once.
C5_PaginationCorrectness ==
  pc \in {"join", "done"} =>
    \A k \in Keys : puts[k] = (IF k \in AllListed THEN 1 ELSE 0)

\* C6: accounting conservation: when the run has reported completion,
\* succeeded + failed = submitted.
C6_Conservation ==
  pc = "done" => Succeeded + Failed = Submitted
C6_Witness ==
  /\ pc = "done"
  /\ Succeeded >= 1
  /\ Failed >= 1
  /\ Submitted >= 3

\* C7: failure recording: when the run completes, the result returned to the
\* caller lists exactly the keys whose delete failed.
C7_FailuresRecorded ==
  pc = "done" => ResultFailures(ret) = FailedKeys

\* C8: fatal enumeration error: when the listing call fails the run has
\* ended with that error surfaced, nothing was enqueued, no worker was
\* started and handler is not waiting in join.
C8_ListFailureAborts ==
  (listFails /\ pc # "list") =>
    /\ pc = "raised"
    /\ error = "ListError"
    /\ Submitted = 0
    /\ queue = EmptyQueue
    /\ started = 0
C8_Witness ==
  /\ listFails
  /\ pc = "raised"
  /\ Len(pages[1]) >= 2

\* C9: shutdown: when the run has returned, every worker has reached the
\* Stopped state; none is left blocked in get().
C9_ShutdownStopsWorkers ==
  pc = "done" => \A w \in Workers : wstate[w] = "Stopped"

\* C10: after remove_orphans (main with --delete) has returned, the VPC holds
\* no security group that no scanned resource references, and every
\* referenced group of the VPC is still there.
C10_OrphansRemoved ==
  (sgpc = "done" /\ argVpc /\ argDelete) =>
    /\ \A g \in vpcGroups : uses[g] # <<>>
    /\ \A g \in vpcBefore : uses[g] # <<>> => g \in vpcGroups

====
